---------------------------- MODULE Spec2Model ----------------------------
(***************************************************************************)
(* A model of etl.py, the batch ETL pipeline that loads song-metadata      *)
(* files and event-log files into the sparkify store.                      *)
(*                                                                         *)
(* Text is a sequence of one-character strings.  A field value is None, an *)
(* integer or a text.  The store is the set of tables as the connection's  *)
(* open transaction sees them (db) and as they were last committed         *)
(* (committed).                                                            *)
(***************************************************************************)
EXTENDS Integers, Sequences, FiniteSets, TLC

\* ------------------------------------------------------------------------
\* Bounds of the model
\* ------------------------------------------------------------------------

\* Most song files the song directory holds.
MaxSongFiles == 2

\* Most event records the log directory holds, over all its files.
MaxRecs == 2

\* Most times main() is run against the same directories and store.
MaxRuns == 2

\* Longest text drawn as a free field value for the line format.
MaxLen == 2

\* ------------------------------------------------------------------------
\* Field values and their text
\* ------------------------------------------------------------------------

NL == "\n"
TAB == "\t"
BS == "\\"

None == [k |-> "none", v |-> <<>>]
Num(n) == [k |-> "int", v |-> n]
Txt(s) == [k |-> "str", v |-> s]

DigitChars == <<"0", "1", "2", "3", "4", "5", "6", "7", "8", "9">>

RECURSIVE Digits(_)
\* str(n) of a natural number: its decimal digits.
Digits(n) ==
    IF n < 10 THEN <<DigitChars[n + 1]>>
    ELSE Digits(n \div 10) \o <<DigitChars[(n % 10) + 1]>>

\* str(value) of a value that is not None.
Str(value) == IF value.k = "int" THEN Digits(value.v) ELSE value.v

RECURSIVE Replace(_, _, _)
\* s.replace(old, new) for a one-character old.
Replace(s, old, new) ==
    IF s = <<>> THEN <<>>
    ELSE (IF Head(s) = old THEN new ELSE <<Head(s)>>) \o Replace(Tail(s), old, new)

clean_csv_value(value) ==
    IF value = None THEN <<BS, "N">>
    ELSE Replace(Str(value), NL, <<BS, "n">>)

RECURSIVE Join(_, _)
\* sep.join(parts)
Join(parts, sep) ==
    IF parts = <<>> THEN <<>>
    ELSE IF Len(parts) = 1 THEN parts[1]
    ELSE parts[1] \o <<sep>> \o Join(Tail(parts), sep)

\* One line of the songplays buffer: the normalized fields joined by tabs and
\* ended by a newline.
WriteLine(row) ==
    Join([i \in 1..Len(row) |-> clean_csv_value(row[i])], TAB) \o <<NL>>

\* ------------------------------------------------------------------------
\* The reader of the line format (copy_from, text format)
\* ------------------------------------------------------------------------

RECURSIVE SplitRaw(_, _, _, _)
\* The buffer cut into lines and raw fields.  A newline ends a line and a tab
\* ends a field unless a backslash precedes it; a backslash and the character
\* after it stay in the raw field.  acc is the field, fields the line, and
\* lines the lines so far.
SplitRaw(buf, acc, fields, lines) ==
    IF buf = <<>> THEN
        IF acc = <<>> /\ fields = <<>> THEN lines
        ELSE Append(lines, Append(fields, acc))
    ELSE IF Head(buf) = BS /\ Len(buf) >= 2 THEN
        SplitRaw(Tail(Tail(buf)), acc \o <<BS, buf[2]>>, fields, lines)
    ELSE IF Head(buf) = NL THEN
        SplitRaw(Tail(buf), <<>>, <<>>, Append(lines, Append(fields, acc)))
    ELSE IF Head(buf) = TAB THEN
        SplitRaw(Tail(buf), <<>>, Append(fields, acc), lines)
    ELSE SplitRaw(Tail(buf), Append(acc, Head(buf)), fields, lines)

\* The character a backslash sequence stands for.
Escaped(c) ==
    IF c = "n" THEN NL ELSE IF c = "t" THEN TAB ELSE c

RECURSIVE Unescape(_)
Unescape(raw) ==
    IF raw = <<>> THEN <<>>
    ELSE IF Head(raw) = BS /\ Len(raw) >= 2 THEN
        <<Escaped(raw[2])>> \o Unescape(Tail(Tail(raw)))
    ELSE <<Head(raw)>> \o Unescape(Tail(raw))

IsDigits(s) ==
    /\ s # <<>>
    /\ \A i \in 1..Len(s) : \E d \in 1..10 : s[i] = DigitChars[d]

DigitValue(c) == (CHOOSE d \in 1..10 : DigitChars[d] = c) - 1

RECURSIVE ToNat(_)
ToNat(s) ==
    IF s = <<>> THEN 0
    ELSE 10 * ToNat(SubSeq(s, 1, Len(s) - 1)) + DigitValue(s[Len(s)])

\* The value of one raw field in a column of the given type, or "error".
ReadField(raw, type) ==
    IF raw = <<BS, "N">> THEN None
    ELSE IF type = "int" THEN
        (IF IsDigits(raw) THEN Num(ToNat(raw)) ELSE [k |-> "error", v |-> <<>>])
    ELSE Txt(Unescape(raw))

\* The column types of songplays in the order copy_from is given them.
SongplayTypes == <<"int", "int", "str", "str", "str", "int", "str", "str">>

RowOf(rawfields, types) ==
    [c \in 1..Len(types) |-> ReadField(rawfields[c], types[c])]

\* cur.copy_from(output, table, columns): the rows the buffer holds, or
\* not ok when a line has not one field per column or a field does not read
\* as its column's type; then the statement raises and loads no row.
CopyFrom(buf, types) ==
    LET lines == SplitRaw(buf, <<>>, <<>>, <<>>)
        good(l) == /\ Len(l) = Len(types)
                   /\ \A c \in 1..Len(types) : ReadField(l[c], types[c]).k # "error"
    IN IF \A n \in 1..Len(lines) : good(lines[n])
       THEN [ok |-> TRUE, rows |-> [n \in 1..Len(lines) |-> RowOf(lines[n], types)]]
       ELSE [ok |-> FALSE, rows |-> <<>>]

\* ------------------------------------------------------------------------
\* The documents on disk
\* ------------------------------------------------------------------------

SongFields == {"song_id", "artist_id", "title", "year", "duration"}
ArtistFields == {"artist_id", "artist_name", "artist_location",
                 "artist_latitude", "artist_longitude"}

\* A song document: whether it parses as JSON, the fields it has, and the
\* song it describes.  The good document describes song 1 of artist 1, the
\* incomplete ones song 2 of artist 2.
GoodSong == [parses |-> TRUE, has |-> SongFields \cup ArtistFields, n |-> 1]
NoArtistSong == [parses |-> TRUE, has |-> SongFields, n |-> 2]
NoTitleSong == [parses |-> TRUE, has |-> (SongFields \cup ArtistFields) \ {"title"}, n |-> 2]
BadJson == [parses |-> FALSE, has |-> {}, n |-> 2]

SongDocs == {GoodSong, NoArtistSong, NoTitleSong, BadJson}

Title(n) == IF n = 1 THEN Txt(<<"T">>) ELSE Txt(<<"U">>)
ArtistName(n) == IF n = 1 THEN Txt(<<"A">>) ELSE Txt(<<"B">>)
Duration(n) == IF n = 1 THEN Num(200) ELSE Num(300)
SongId(n) == Txt(<<"S", DigitChars[n + 1]>>)
ArtistId(n) == Txt(<<"R", DigitChars[n + 1]>>)

\* song_data and artist_data of a document
SongRow(doc) == <<SongId(doc.n), ArtistId(doc.n), Title(doc.n), Num(0), Duration(doc.n)>>
ArtistRow(doc) == <<ArtistId(doc.n), ArtistName(doc.n), None, None, None>>

Free == Txt(<<"f">>)
Paid == Txt(<<"p">>)
Plain == Txt(<<"a">>)
Tabbed == Txt(<<"a", TAB, "b">>)

\* The event records.  A retained record asks for song T of artist A, whose
\* duration is 200 when it is loaded; user u's events carry the timestamp u.
Played ==
    {[page |-> "NextSong", ts |-> u, userId |-> u, level |-> l,
      song |-> Title(1), artist |-> ArtistName(1), length |-> Duration(1),
      sessionId |-> 7, location |-> Plain, userAgent |-> Plain] :
        u \in {1, 2}, l \in {Free, Paid}}

\* The same song with another length, which matches no loaded song.
OtherLength ==
    [page |-> "NextSong", ts |-> 1, userId |-> 1, level |-> Free,
     song |-> Title(1), artist |-> ArtistName(1), length |-> Num(201),
     sessionId |-> 7, location |-> Plain, userAgent |-> Plain]

\* A retained record whose location holds a tab.
TabLocation ==
    [page |-> "NextSong", ts |-> 1, userId |-> 1, level |-> Free,
     song |-> Title(1), artist |-> ArtistName(1), length |-> Duration(1),
     sessionId |-> 7, location |-> Tabbed, userAgent |-> Plain]

\* A record of another page.
HomePage ==
    [page |-> "Home", ts |-> 1, userId |-> 1, level |-> Free,
     song |-> None, artist |-> None, length |-> None,
     sessionId |-> 7, location |-> Plain, userAgent |-> Plain]

NextSongs == Played \cup {OtherLength, TabLocation}

Others == {HomePage}

Records == NextSongs \cup Others

\* The log documents of 1..n records
LogDocs(n) == UNION {[1..m -> Records] : m \in 1..n}

RECURSIVE LogDirs(_)
\* The log directories holding at most n records in all, each file at least one.
LogDirs(n) ==
    {<<>>} \cup
    UNION {{<<d>> \o rest : rest \in LogDirs(n - Len(d))} : d \in LogDocs(n)}

SongDirs == UNION {[1..m -> SongDocs] : m \in 0..MaxSongFiles}

\* ------------------------------------------------------------------------
\* The statements of sql_queries
\* ------------------------------------------------------------------------

HasKey(table, key) == \E n \in 1..Len(table) : table[n][1] = key

\* INSERT ... ON CONFLICT (key) DO NOTHING, the key being the first column
InsertIgnore(table, row) ==
    IF HasKey(table, row[1]) THEN table ELSE Append(table, row)

song_table_insert(songs, song_data) == InsertIgnore(songs, song_data)

artist_table_insert(artists, artist_data) == InsertIgnore(artists, artist_data)

\* INSERT ... ON CONFLICT (user_id) DO UPDATE SET level = EXCLUDED.level;
\* a users row is <<user_id, level>>.
user_table_insert(users, row) ==
    IF HasKey(users, row[1])
    THEN [n \in 1..Len(users) |-> IF users[n][1] = row[1] THEN row ELSE users[n]]
    ELSE Append(users, row)

\* CREATE TEMP TABLE tmp_table: the staging table, empty
time_tmp_table == <<>>

RECURSIVE time_table_bulk_insert(_, _)
\* INSERT INTO time SELECT ... FROM tmp_table ON CONFLICT (start_time) DO
\* NOTHING; a time row is <<start_time>>, the calendar columns being
\* functions of it.
time_table_bulk_insert(time, tmp) ==
    IF tmp = <<>> THEN time
    ELSE time_table_bulk_insert(InsertIgnore(time, Head(tmp)), Tail(tmp))

NoRow == <<>>

\* SELECT song_id, artist_id FROM songs JOIN artists USING (artist_id)
\* WHERE title = %s AND name = %s AND duration = %s, then fetchone():
\* the first matching row, or NoRow.
song_select(songs, artists, song, artist, length) ==
    LET hits == {<<s, a>> \in (1..Len(songs)) \X (1..Len(artists)) :
                    /\ songs[s][2] = artists[a][1]
                    /\ songs[s][3] = song
                    /\ artists[a][2] = artist
                    /\ songs[s][5] = length}
    IN IF hits = {} THEN NoRow
       ELSE LET h == CHOOSE x \in hits : \A y \in hits : x[1] <= y[1]
            IN <<songs[h[1]][1], artists[h[2]][1]>>

EmptyStore == [songs |-> <<>>, artists |-> <<>>, users |-> <<>>,
               time |-> <<>>, songplays |-> <<>>]

\* ------------------------------------------------------------------------
\* The state
\* ------------------------------------------------------------------------

VARIABLES
    songDisk,      \* the song directory: its documents in discovery order
    logDisk,       \* the log directory: its documents in discovery order
    run,           \* the number of runs of main() started
    pass,          \* "song" or "log": which process_data call is running
    pc,            \* the position of the run
    all_files,     \* process_data: the files discovered
    i,             \* process_data: the index of the file being processed
    df,            \* process_log_file: the retained records
    j,             \* process_log_file: the row of the running loop
    output,        \* process_log_file: the songplays buffer
    plays,         \* the songplay_data tuples written to the buffer
    tmp_table,     \* the staging table of the session
    db,            \* the tables as the open transaction sees them
    committed,     \* the tables as last committed
    commits,       \* history: conn.commit() calls of this run
    calls,         \* history: the files this run called func on
    trace,         \* history: the store operations of the file being processed
    dirty,         \* history: the files with statements not yet committed
    failedAt,      \* history: the file whose processing raised, or <<>>
    lastReturned,  \* history: db when func last returned (or the run began)
    prev,          \* history: the last log document processed to the end,
                   \*   with time and users as they were then
    loaded,        \* history: retained records of the log files committed
    values,        \* the line format alone: two field values
    line,          \* the line format alone: the line written, or <<>>
    back           \* the line format alone: the lines and fields read back

vars == <<songDisk, logDisk, run, pass, pc, all_files, i, df, j, output, plays,
          tmp_table, db, committed, commits, calls, trace, dirty, failedAt,
          lastReturned, prev, loaded, values, line, back>>

\* What no step of a run changes: the directories, and the variables of the
\* line format taken alone.
disk == <<songDisk, logDisk, values, line, back>>
locals == <<df, j, output, plays>>
history == <<commits, calls, trace, dirty, failedAt, lastReturned, prev, loaded>>

NoPrev == [doc |-> <<>>, time |-> <<>>, users |-> <<>>]

AllGood(dir) == \A n \in 1..Len(dir) : dir[n] = GoodSong

\* The store is empty and the directories hold any documents within the
\* bounds.  A run that fails in the song directory never looks at the log
\* directory, which is then left empty.
Init ==
    /\ songDisk \in SongDirs
    /\ logDisk \in (IF AllGood(songDisk) THEN LogDirs(MaxRecs) ELSE {<<>>})
    /\ run = 1
    /\ pass = "song"
    /\ pc = "discover"
    /\ all_files = <<>>
    /\ i = 0
    /\ df = <<>>
    /\ j = 1
    /\ output = <<>>
    /\ plays = <<>>
    /\ tmp_table = <<>>
    /\ db = EmptyStore
    /\ committed = EmptyStore
    /\ commits = 0
    /\ calls = <<>>
    /\ trace = <<>>
    /\ dirty = {}
    /\ failedAt = <<>>
    /\ lastReturned = EmptyStore
    /\ prev = NoPrev
    /\ loaded = 0
    /\ values = <<None, None>>
    /\ line = <<>>
    /\ back = <<>>

\* ------------------------------------------------------------------------
\* process_data
\* ------------------------------------------------------------------------

FileId == <<pass, i>>

\* A slip: try/finally around func, so that the commit runs all the same.
RaisedSwallowed == "commit"

\* A slip: the exception is caught and the loop goes on to the next file.
RaisedContinue == "loop"

\* An exception of func is caught nowhere: it leaves process_data and main.
Raised == "aborted"

\* A slip: the time rows are merged after the songplays are copied.
LogOrderMergeLast ==
    <<"log_stage", "log_users", "log_lookup", "log_copy", "log_merge", "return">>

\* A slip: the users are upserted after the songplays are copied.
LogOrderUsersLast ==
    <<"log_stage", "log_merge", "log_lookup", "log_copy", "log_users", "return">>

\* The statements of process_log_file in the order the code runs them.
LogOrder ==
    <<"log_stage", "log_merge", "log_users", "log_lookup", "log_copy", "return">>

Following(step) ==
    LogOrder[(CHOOSE n \in 1..Len(LogOrder) : LogOrder[n] = step) + 1]

FirstStep(p) == IF p = "song" THEN "song_insert" ELSE LogOrder[1]

\* A slip: conn.commit() stands after the loop, not in it.
CommitAtEnd(index, num_files) == index = num_files

\* conn.commit() stands in the loop body: it runs after every file.
CommitDue(index, num_files) == TRUE

\* enumerate(all_files, 1): the index after index
NextFile(index) == index + 1

Raise ==
    /\ pc' = Raised
    /\ failedAt' = FileId

\* all_files = the files under filepath
Discover ==
    /\ pc = "discover"
    /\ all_files' = (IF pass = "song" THEN songDisk ELSE logDisk)
    /\ i' = 0
    /\ pc' = "loop"
    /\ UNCHANGED <<disk, run, pass, locals, tmp_table, db, committed, history>>

\* for i, datafile in enumerate(all_files, 1): func(cur, datafile) is called
Loop ==
    /\ pc = "loop"
    /\ i < Len(all_files)
    /\ i' = NextFile(i)
    /\ pc' = FirstStep(pass)
    /\ calls' = Append(calls, <<pass, i'>>)
    /\ trace' = <<>>
    /\ UNCHANGED <<disk, run, pass, all_files, locals, tmp_table, db, committed,
                   commits, dirty, failedAt, lastReturned, prev, loaded>>

\* The loop is over: main goes on to the log directory or closes the connection.
PassDone ==
    /\ pc = "loop"
    /\ i >= Len(all_files)
    /\ IF pass = "song"
       THEN pass' = "log" /\ pc' = "discover"
       ELSE pass' = pass /\ pc' = "done"
    /\ UNCHANGED <<disk, run, all_files, i, locals, tmp_table, db, committed,
                   history>>

Retained(doc) == SelectSeq(doc, LAMBDA r : r.page = "NextSong")

\* conn.commit() and the progress line
Commit ==
    /\ pc = "commit"
    /\ IF CommitDue(i, Len(all_files))
       THEN /\ committed' = db
            /\ commits' = commits + 1
            /\ dirty' = {}
            /\ loaded' = loaded + (IF pass = "log"
                                    THEN Len(Retained(all_files[i])) ELSE 0)
       ELSE UNCHANGED <<committed, commits, dirty, loaded>>
    /\ pc' = "loop"
    /\ trace' = <<>>
    /\ UNCHANGED <<disk, run, pass, all_files, i, locals, tmp_table, db, calls,
                   failedAt, lastReturned, prev>>

\* main() is run again on the same directories and store: a new connection
\* sees the committed tables, and what was not committed is gone.
Restart ==
    /\ pc \in {"done", "aborted"}
    /\ run < MaxRuns
    /\ run' = run + 1
    /\ pass' = "song"
    /\ pc' = "discover"
    /\ all_files' = <<>>
    /\ i' = 0
    /\ df' = <<>>
    /\ j' = 1
    /\ output' = <<>>
    /\ plays' = <<>>
    /\ tmp_table' = <<>>
    /\ db' = committed
    /\ commits' = 0
    /\ calls' = <<>>
    /\ trace' = <<>>
    /\ dirty' = {}
    /\ failedAt' = <<>>
    /\ lastReturned' = committed
    /\ UNCHANGED <<disk, committed, prev, loaded>>

\* ------------------------------------------------------------------------
\* process_song_file
\* ------------------------------------------------------------------------

\* pd.read_json, the song columns and the songs insert
SongInsert ==
    /\ pc = "song_insert"
    /\ LET doc == all_files[i]
       IN IF doc.parses /\ SongFields \subseteq doc.has
          THEN /\ db' = [db EXCEPT !.songs = song_table_insert(@, SongRow(doc))]
               /\ dirty' = dirty \cup {FileId}
               /\ trace' = Append(trace, "songs")
               /\ pc' = "artist_insert"
               /\ UNCHANGED failedAt
          ELSE /\ Raise
               /\ UNCHANGED <<db, dirty, trace>>
    /\ UNCHANGED <<disk, run, pass, all_files, i, locals, tmp_table, committed,
                   commits, calls, lastReturned, prev, loaded>>

\* the artist columns and the artists insert
ArtistInsert ==
    /\ pc = "artist_insert"
    /\ LET doc == all_files[i]
       IN IF ArtistFields \subseteq doc.has
          THEN /\ db' = [db EXCEPT !.artists = artist_table_insert(@, ArtistRow(doc))]
               /\ trace' = Append(trace, "artists")
               /\ pc' = "return"
               /\ UNCHANGED failedAt
          ELSE /\ Raise
               /\ UNCHANGED <<db, trace>>
    /\ UNCHANGED <<disk, run, pass, all_files, i, locals, tmp_table, committed,
                   commits, calls, dirty, lastReturned, prev, loaded>>

\* ------------------------------------------------------------------------
\* process_log_file
\* ------------------------------------------------------------------------

RECURSIVE ToCsv(_)
\* time_df.to_csv(sep='\t', index=False, header=False) of the start times
ToCsv(times) ==
    IF times = <<>> THEN <<>>
    ELSE Digits(Head(times)) \o <<NL>> \o ToCsv(Tail(times))

\* A slip: only the song id is taken from the fetched row.
ResolveSongOnly(results) ==
    IF results # NoRow THEN <<results[1], None>> ELSE <<None, None>>

\* songid, artistid of a fetched row
Resolve(results) ==
    IF results # NoRow THEN results ELSE <<None, None>>

\* The tuple written for a retained record
songplay_data(row, ids) ==
    <<Num(row.ts), Num(row.userId), row.level, ids[1], ids[2],
      Num(row.sessionId), row.location, row.userAgent>>

\* A slip: the level is read from the first row of the frame.
user_row_first(frame, n) == <<Num(frame[n].userId), frame[1].level>>

\* row j of user_df, as the users insert takes it
user_row(frame, n) == <<Num(frame[n].userId), frame[n].level>>

\* A slip: rows the table already holds are left out, as for the time table.
AppendRowsDedup(table, rows) ==
    table \o SelectSeq(rows, LAMBDA r : \A n \in 1..Len(table) : table[n] # r)

\* copy_from(output, 'songplays', columns): the rows are appended
AppendRows(table, rows) == table \o rows

\* read the file, keep the NextSong records, create tmp_table and copy the
\* time rows into it
LogStage ==
    /\ pc = "log_stage"
    /\ df' = Retained(all_files[i])
    /\ tmp_table' = time_tmp_table \o
                    CopyFrom(ToCsv([n \in 1..Len(df') |-> df'[n].ts]), <<"int">>).rows
    /\ j' = 1
    /\ output' = <<>>
    /\ plays' = <<>>
    /\ trace' = trace \o <<"create_tmp", "copy_tmp">>
    /\ dirty' = dirty \cup {FileId}
    /\ pc' = Following("log_stage")
    /\ UNCHANGED <<disk, run, pass, all_files, i, db, committed, commits, calls,
                   failedAt, lastReturned, prev, loaded>>

\* merge tmp_table into time
LogMerge ==
    /\ pc = "log_merge"
    /\ db' = [db EXCEPT !.time = time_table_bulk_insert(@, tmp_table)]
    /\ trace' = Append(trace, "merge")
    /\ pc' = Following("log_merge")
    /\ UNCHANGED <<disk, run, pass, all_files, i, locals, tmp_table, committed,
                   commits, calls, dirty, failedAt, lastReturned, prev, loaded>>

\* for i, row in user_df.iterrows(): one upsert
LogUsers ==
    /\ pc = "log_users"
    /\ IF j <= Len(df)
       THEN /\ db' = [db EXCEPT !.users = user_table_insert(@, user_row(df, j))]
            /\ trace' = Append(trace, "upsert")
            /\ j' = j + 1
            /\ pc' = pc
       ELSE /\ j' = 1
            /\ pc' = Following("log_users")
            /\ UNCHANGED <<db, trace>>
    /\ UNCHANGED <<disk, run, pass, all_files, i, df, output, plays, tmp_table,
                   committed, commits, calls, dirty, failedAt, lastReturned,
                   prev, loaded>>

\* for index, row in df.iterrows(): one lookup and one line of the buffer
LogLookup ==
    /\ pc = "log_lookup"
    /\ IF j <= Len(df)
       THEN LET results == song_select(db.songs, db.artists,
                                       df[j].song, df[j].artist, df[j].length)
                data == songplay_data(df[j], Resolve(results))
            IN /\ plays' = Append(plays, data)
               /\ output' = output \o WriteLine(data)
               /\ j' = j + 1
               /\ pc' = pc
       ELSE /\ j' = 1
            /\ pc' = Following("log_lookup")
            /\ UNCHANGED <<output, plays>>
    /\ UNCHANGED <<disk, run, pass, all_files, i, df, tmp_table, db, committed,
                   history>>

\* copy the buffer into songplays
LogCopy ==
    /\ pc = "log_copy"
    /\ LET rows == CopyFrom(output, SongplayTypes)
       IN IF rows.ok
          THEN /\ db' = [db EXCEPT !.songplays = AppendRows(@, rows.rows)]
               /\ trace' = Append(trace, "copy_songplays")
               /\ pc' = Following("log_copy")
               /\ UNCHANGED failedAt
          ELSE /\ Raise
               /\ UNCHANGED <<db, trace>>
    /\ UNCHANGED <<disk, run, pass, all_files, i, locals, tmp_table, committed,
                   commits, calls, dirty, lastReturned, prev, loaded>>

\* func returns to process_data: its locals are gone
Return ==
    /\ pc = "return"
    /\ lastReturned' = db
    /\ prev' = (IF pass = "log"
                THEN [doc |-> all_files[i], time |-> db.time, users |-> db.users]
                ELSE prev)
    /\ df' = <<>>
    /\ j' = 1
    /\ output' = <<>>
    /\ plays' = <<>>
    /\ pc' = "commit"
    /\ UNCHANGED <<disk, run, pass, all_files, i, tmp_table, db, committed,
                   commits, calls, trace, dirty, failedAt, loaded>>

Next ==
    \/ Discover
    \/ Loop
    \/ PassDone
    \/ SongInsert
    \/ ArtistInsert
    \/ LogStage
    \/ LogMerge
    \/ LogUsers
    \/ LogLookup
    \/ LogCopy
    \/ Return
    \/ Commit
    \/ Restart

Spec == Init /\ [][Next]_vars

\* ------------------------------------------------------------------------
\* The line format alone: a songplays row whose location and user agent are
\* any two values is written as process_log_file writes it and read back.
\* ------------------------------------------------------------------------

Alphabet == {"a", "N", "n", BS, NL, TAB}

Texts == UNION {[1..m -> Alphabet] : m \in 0..MaxLen}

Values == {None} \cup {Txt(t) : t \in Texts}

RowWith(location, userAgent) ==
    <<Num(1), Num(1), Free, None, None, Num(7), location, userAgent>>

InitCsv ==
    /\ values \in Values \X Values
    /\ line = <<>>
    /\ back = <<>>
    /\ songDisk = <<>>
    /\ logDisk = <<>>
    /\ run = 1
    /\ pass = "log"
    /\ pc = "write"
    /\ all_files = <<>>
    /\ i = 0
    /\ df = <<>>
    /\ j = 1
    /\ output = <<>>
    /\ plays = <<>>
    /\ tmp_table = <<>>
    /\ db = EmptyStore
    /\ committed = EmptyStore
    /\ commits = 0
    /\ calls = <<>>
    /\ trace = <<>>
    /\ dirty = {}
    /\ failedAt = <<>>
    /\ lastReturned = EmptyStore
    /\ prev = NoPrev
    /\ loaded = 0

main == <<run, pass, all_files, i, locals, tmp_table, db, committed, history>>

\* output.write('\t'.join(map(clean_csv_value, songplay_data)) + '\n')
CsvWrite ==
    /\ pc = "write"
    /\ line' = WriteLine(RowWith(values[1], values[2]))
    /\ pc' = "read"
    /\ UNCHANGED <<songDisk, logDisk, values, back, main>>

\* the buffer as copy_from cuts it into lines and fields
CsvRead ==
    /\ pc = "read"
    /\ back' = SplitRaw(line, <<>>, <<>>, <<>>)
    /\ pc' = "read_done"
    /\ UNCHANGED <<songDisk, logDisk, values, line, main>>

NextCsv == CsvWrite \/ CsvRead

SpecCsv == InitCsv /\ [][NextCsv]_vars

\* ------------------------------------------------------------------------
\* Properties
\* ------------------------------------------------------------------------

IsPrefix(p, q) == Len(p) <= Len(q) /\ SubSeq(q, 1, Len(p)) = p

InFunc == pc \in {"song_insert", "artist_insert", "log_stage", "log_merge",
                  "log_users", "log_lookup", "log_copy", "return"}

Keys(table) == {table[n][1] : n \in 1..Len(table)}

\* C1: every songplays row's start_time is the key of a row of the time
\* table, in the tables the transaction sees and in the committed tables.
C1_ForeignKey ==
    /\ \A n \in 1..Len(db.songplays) : HasKey(db.time, db.songplays[n][1])
    /\ \A n \in 1..Len(committed.songplays) :
          HasKey(committed.time, committed.songplays[n][1])

\* Songplays of two timestamps are committed, each with its time row.
C1_Witness ==
    /\ Keys(committed.songplays) = {Num(1), Num(2)}
    /\ Keys(committed.time) = {Num(1), Num(2)}

\* C2: once the k-th file of a run has raised, the run is over and stays
\* so: the k-th file is the last one func was called on, no file was called
\* twice, the run made k-1 commits, and the committed tables are those the
\* (k-1)-th file left (those of the run's start when k = 1).
C2_BatchAbort ==
    failedAt # <<>> =>
        /\ pc = "aborted"
        /\ calls[Len(calls)] = failedAt
        /\ \A m, n \in 1..Len(calls) : calls[m] = calls[n] => m = n
        /\ commits = Len(calls) - 1
        /\ committed = lastReturned

\* A file after a committed one has raised, with statements left uncommitted.
C2_Witness ==
    /\ pc = "aborted"
    /\ failedAt # <<>>
    /\ commits >= 1
    /\ db # committed

\* The store operations of process_log_file for m retained records
ExpectedTrace(m) ==
    <<"create_tmp", "copy_tmp", "merge">> \o [n \in 1..m |-> "upsert"]
        \o <<"copy_songplays">>

\* C6: within one log file the store operations run in the order: create
\* tmp_table, copy the time rows, merge into time, one users upsert per
\* retained record, the songplays copy.
C6_LoadOrder ==
    (pass = "log" /\ i >= 1 /\ pc # "discover") =>
        IsPrefix(trace, ExpectedTrace(Len(Retained(all_files[i]))))

\* A file of two retained records has been loaded to the end.
C6_Witness ==
    /\ pass = "log"
    /\ pc = "return"
    /\ trace = ExpectedTrace(2)

\* C7: func is called on the files one by one in discovery order; the run
\* has made one commit per file whose iteration is over; statements of at
\* most one file are uncommitted; between files the committed tables are
\* those the last file left.
C7_OneTransactionPerFile ==
    /\ \A n \in 1..Len(calls) :
          calls[n] = IF n <= Len(songDisk) THEN <<"song", n>>
                     ELSE <<"log", n - Len(songDisk)>>
    /\ Cardinality(dirty) <= 1
    /\ commits = Len(calls) - (IF InFunc \/ pc \in {"commit", "aborted"}
                               THEN 1 ELSE 0)
    /\ pc \in {"loop", "discover", "done"} =>
          (committed = lastReturned /\ db = committed /\ dirty = {})

\* Three files have been committed one after the other.
C7_Witness ==
    /\ pass = "log"
    /\ pc = "loop"
    /\ commits = 3
    /\ Len(committed.songplays) = 2

LastLevel(frame, u) ==
    LET last == CHOOSE n \in 1..Len(frame) :
                    /\ frame[n].userId = u
                    /\ \A m \in (n + 1)..Len(frame) : frame[m].userId # u
    IN frame[last].level

Unique(table) == \A m, n \in 1..Len(table) : table[m][1] = table[n][1] => m = n

\* C3: the time table has at most one row per timestamp and the users
\* table at most one row per user id; when process_log_file has run over a
\* file to the end, each user of its retained records has the level of the
\* user's last retained record, and if the log file processed just before
\* was the same document, time and users are as that run left them.
C3_Idempotence ==
    /\ Unique(db.time) /\ Unique(db.users)
    /\ Unique(committed.time) /\ Unique(committed.users)
    /\ (pass = "log" /\ pc = "return") =>
          /\ \A n \in 1..Len(df) : \E m \in 1..Len(db.users) :
                db.users[m] = <<Num(df[n].userId), LastLevel(df, df[n].userId)>>
          /\ all_files[i] = prev.doc =>
                (db.time = prev.time /\ db.users = prev.users)

\* A file in which a user changes level has been run over a second time.
C3_Witness ==
    /\ pass = "log"
    /\ pc = "return"
    /\ all_files[i] = prev.doc
    /\ Len(df) = 2
    /\ df[1].userId = df[2].userId
    /\ df[1].level # df[2].level

\* The rows process_log_file has added to songplays for the running file
NewPlays ==
    SubSeq(db.songplays, Len(lastReturned.songplays) + 1, Len(db.songplays))

Count(seq, x) == Cardinality({n \in 1..Len(seq) : seq[n] = x})

\* C4: process_log_file over a file with M NextSong records ends with M
\* time rows staged, M users upserts issued and M rows appended to
\* songplays, the k-th carrying the timestamp of the k-th NextSong record.
C4_ExactFiltering ==
    (pass = "log" /\ pc \in {"return", "aborted"}) =>
        LET kept == Retained(all_files[i])
        IN /\ Len(tmp_table) = Len(kept)
           /\ Count(trace, "upsert") = Len(kept)
           /\ IsPrefix(lastReturned.songplays, db.songplays)
           /\ Len(NewPlays) = Len(kept)
           /\ \A k \in 1..Len(kept) : NewPlays[k][1] = Num(kept[k].ts)

\* The song and artist rows a record's song, artist and length match
Matches(r) ==
    {<<s, a>> \in (1..Len(db.songs)) \X (1..Len(db.artists)) :
        /\ db.songs[s][2] = db.artists[a][1]
        /\ db.songs[s][3] = r.song
        /\ db.artists[a][2] = r.artist
        /\ db.songs[s][5] = r.length}

\* C5: every retained record the lookup loop has passed has its tuple in the
\* buffer; the tuple's song_id and artist_id are both None when no song and
\* artist match the record, and are the ids of a matching pair otherwise; the
\* rows copied into songplays carry the same ids, and no songplays row has
\* exactly one of the two ids null.
C5_LookupMiss ==
    /\ (pass = "log" /\ pc \in {"log_lookup", "log_copy", "return"}) =>
          /\ Len(plays) = (IF pc = "log_lookup" THEN j - 1 ELSE Len(df))
          /\ \A k \in 1..Len(plays) :
                IF Matches(df[k]) = {}
                THEN plays[k][4] = None /\ plays[k][5] = None
                ELSE \E h \in Matches(df[k]) :
                        /\ plays[k][4] = db.songs[h[1]][1]
                        /\ plays[k][5] = db.artists[h[2]][1]
    /\ (pass = "log" /\ pc = "return") =>
          /\ Len(NewPlays) = Len(plays)
          /\ \A k \in 1..Len(plays) :
                NewPlays[k][4] = plays[k][4] /\ NewPlays[k][5] = plays[k][5]
    /\ \A n \in 1..Len(db.songplays) :
          (db.songplays[n][4] = None) <=> (db.songplays[n][5] = None)

\* A file with a record that matches and one that does not has been loaded.
C5_Witness ==
    /\ pass = "log"
    /\ pc = "return"
    /\ \E k \in 1..Len(NewPlays) : NewPlays[k][4] = None
    /\ \E k \in 1..Len(NewPlays) : NewPlays[k][4] = SongId(1)

\* C9: a songplays row is written as one line that reads back as one
\* line of eight fields, and two different field values never have the same
\* normalized text.
C9_RoundTrip ==
    pc = "read_done" =>
        /\ Len(back) = 1
        /\ Len(back[1]) = 8
        /\ values[1] # values[2] =>
              clean_csv_value(values[1]) # clean_csv_value(values[2])

\* C10: the committed songplays hold one row per retained record of every
\* log file committed, however often the same file was committed; a copy
\* that succeeds adds one row per retained record of its file after the rows
\* there, and no step of a run and no commit removes or changes a row.
C10_AppendOnly ==
    /\ [](Len(committed.songplays) = loaded)
    /\ [][/\ IsPrefix(committed.songplays, committed'.songplays)
          /\ run' = run => IsPrefix(db.songplays, db'.songplays)
          /\ (pc = "log_copy" /\ pc' # "aborted") =>
                Len(db'.songplays) = Len(db.songplays) + Len(df)]_vars

\* The same file of two retained records has been committed in two runs.
C10_Witness ==
    /\ run = 2
    /\ pc = "done"
    /\ Len(logDisk) = 1
    /\ Len(committed.songplays) = 4
    /\ SubSeq(committed.songplays, 1, 2) = SubSeq(committed.songplays, 3, 4)

=============================================================================
